---------------------------- MODULE Spec2Model ----------------------------
(***************************************************************************)
(* A model of the bq76pl536 battery-monitor driver (src/bq76pl536.c):      *)
(* the CRC-8 frame codec, the batched SPI transport (writeRegister,        *)
(* readRegister, bq_prepare_spi_message), chain discovery (search_pack),   *)
(* the cell census of bq_probe, the poll cycle (get_voltages) and the two  *)
(* semaphores of the driver.  The daisy chain of monitor chips is the      *)
(* environment: it answers the frames the driver puts on the bus.          *)
(***************************************************************************)
EXTENDS Integers, Sequences, FiniteSets, TLC

(***************************************************************************)
(* Program constants (src/bq76pl536.c, src/bq76pl536.h).                   *)
(***************************************************************************)
SPI_BUFF_SIZE == 50
USER_BUFF_SIZE == 128
MAX_BQ_DEVICES == 32
MAX_XFER == 10
CRC_TABLE_SIZE == 256
CELL_MISSING_THRESHOLD == 1000
EFAULT == 14
NULL == -1

DISCOVERY_ADDR == 0
BROADCAST == 63
RESET_COMMAND == 165
DEVICE_STATUS == 0
DS_ADDR_RQST == 128
DS_FAULT == 64
DS_ALERT == 32
DRDY == 1
VCELL1 == 3
VCELL6 == 13
TEMPERATURE1 == 15
TEMPERATURE2 == 17
ALERT_STATUS == 32
FAULT_STATUS == 33
COV_FAULT == 34
CUV_FAULT == 35
ADC_CONVERT == 52
AC_CONV == 1
ADDRESS_CONTROL == 59
AC_ADDR_RQST == 128
RESET == 60
AS_AR == 128
AS_OT1 == 1
FS_POR == 8
FS_COV == 1
CONFIG_COV == 66
ADC_CONTROL == 48
AC_TS2 == 32
AC_TS1 == 16
AC_CELL_SEL_6 == 5
IO_CONTROL == 49
TS2 == 2
TS1 == 1
SHDW_CTRL == 58
SC_ENABLE == 53
COV_300 == 20
COV_350 == 30
(* write_defaults names the undervoltage set point CONFIG_CUV; the header  *)
(* has it as CONFIG_UV, 0x44.                                              *)
CONFIG_CUV == 68
CONFIG_COVT == 67
CC_USMS == 128

(***************************************************************************)
(* Bounds of the model.                                                    *)
(***************************************************************************)
MaxDev == 2
MaxCalls == 11
MaxFaults == 1
MaxChain == 9

(***************************************************************************)
(* u8 arithmetic: the bitwise operators of C on 0..255.                    *)
(***************************************************************************)
RECURSIVE BitXor(_, _)
BitXor(a, b) ==
    IF a = 0 THEN b
    ELSE IF b = 0 THEN a
    ELSE ((a + b) % 2) + 2 * BitXor(a \div 2, b \div 2)

RECURSIVE BitAnd(_, _)
BitAnd(a, b) ==
    IF a = 0 \/ b = 0 THEN 0
    ELSE ((a % 2) * (b % 2)) + 2 * BitAnd(a \div 2, b \div 2)

(* command &= 1 in place of command |= 1.                                  *)
BitOr_masking(a, b) == BitAnd(a, b)

BitOr(a, b) == a + b - BitAnd(a, b)

RECURSIVE Pow2(_)
Pow2(n) == IF n = 0 THEN 1 ELSE 2 * Pow2(n - 1)

RECURSIVE HighBit(_)
HighBit(k) == IF k <= 1 THEN k ELSE 2 * HighBit(k \div 2)

(***************************************************************************)
(* linux/crc8.h as the driver uses it: crc8_populate_msb(table, 7) and     *)
(* crc8(table, data, len, crc).                                            *)
(***************************************************************************)
PolyStep(t, polynomial) ==
    BitXor((t * 2) % 256, IF BitAnd(t, 128) # 0 THEN polynomial ELSE 0)

RECURSIVE PolyAt(_, _)
PolyAt(i, polynomial) ==
    IF i = 1 THEN PolyStep(128, polynomial)
    ELSE PolyStep(PolyAt(i \div 2, polynomial), polynomial)

RECURSIVE TableEntry(_, _)
TableEntry(k, polynomial) ==
    IF k = 0 THEN 0
    ELSE BitXor(TableEntry(k - HighBit(k), polynomial),
                PolyAt(HighBit(k), polynomial))

(* The table of the same generator written lsb-first (0xE0 for 0x07).      *)
crc8_populate_msb_reflected(polynomial) ==
    [k \in 0..(CRC_TABLE_SIZE - 1) |-> TableEntry(k, 224)]

crc8_populate_msb(polynomial) ==
    [k \in 0..(CRC_TABLE_SIZE - 1) |-> TableEntry(k, polynomial)]

crc8_table == crc8_populate_msb(7)

RECURSIVE crc8(_, _, _)
crc8(table, pdata, crc) ==
    IF pdata = <<>> THEN crc
    ELSE crc8(table, Tail(pdata), table[BitAnd(BitXor(crc, Head(pdata)), 255)])


Min(S) == CHOOSE x \in S : \A y \in S : x <= y

(***************************************************************************)
(* The environment: the daisy chain of monitor chips.  chain[p] is the     *)
(* chip at position p (1 is nearest the host).  A chip whose address is 0  *)
(* does not pass frames on, so the frames reach the addressed chips below  *)
(* the first unaddressed one, and that one.                                *)
(***************************************************************************)
Reach(ch) ==
    LET un == {p \in 1..Len(ch) : ch[p].addr = 0}
    IN  IF un = {} THEN 1..Len(ch) ELSE 1..Min(un)

Targets(ch, address) ==
    IF address = BROADCAST THEN Reach(ch)
    ELSE {p \in Reach(ch) : ch[p].addr = address}

DevWrite(d, reg, data) ==
    IF reg = RESET /\ data = RESET_COMMAND
        THEN [d EXCEPT !.addr = 0, !.conv = "idle"]
    ELSE IF reg = ADDRESS_CONTROL
        THEN IF d.mode = "deaf" THEN d
             ELSE [d EXCEPT !.addr = BitAnd(data, 63)]
    ELSE IF reg = ADC_CONVERT /\ BitAnd(data, AC_CONV) # 0
        THEN [d EXCEPT !.conv = "busy"]
    ELSE d

ChainWrite(ch, address, reg, data) ==
    LET tg == Targets(ch, address)
    IN  [p \in 1..Len(ch) |->
            IF p \in tg THEN DevWrite(ch[p], reg, data) ELSE ch[p]]

Hi(v) == (v \div 256) % 256
Lo(v) == v % 256

DevStatus(d) ==
    (IF d.addr # 0 /\ d.mode # "norqst" THEN DS_ADDR_RQST ELSE 0)
    + (IF d.fault # 0 THEN DS_FAULT ELSE 0)
    + (IF d.alert # 0 THEN DS_ALERT ELSE 0)
    + (IF d.conv = "ready" THEN DRDY ELSE 0)

DevByte(d, reg) ==
    IF reg = DEVICE_STATUS THEN DevStatus(d)
    ELSE IF reg >= VCELL1 /\ reg <= VCELL6 + 1
        THEN LET v == d.vcell[((reg - VCELL1) \div 2) + 1]
             IN  IF (reg - VCELL1) % 2 = 0 THEN Hi(v) ELSE Lo(v)
    ELSE IF reg = TEMPERATURE1 THEN Hi(d.temp[1])
    ELSE IF reg = TEMPERATURE1 + 1 THEN Lo(d.temp[1])
    ELSE IF reg = TEMPERATURE2 THEN Hi(d.temp[2])
    ELSE IF reg = TEMPERATURE2 + 1 THEN Lo(d.temp[2])
    ELSE IF reg = ALERT_STATUS THEN d.alert
    ELSE IF reg = FAULT_STATUS THEN d.fault
    ELSE IF reg = COV_FAULT THEN d.cov
    ELSE IF reg = CUV_FAULT THEN d.cuv
    ELSE IF reg = ADDRESS_CONTROL
        THEN IF d.addr # 0 /\ d.mode # "norqst"
             THEN BitOr(d.addr, AC_ADDR_RQST) ELSE d.addr
    ELSE 0

(* The count payload bytes and the CRC-8 a chip answers a read request     *)
(* with; a read that no chip answers leaves the line idle (zeros).         *)
Response(ch, request, count) ==
    LET tg == Targets(ch, request[1] \div 2)
    IN  IF tg = {} THEN [i \in 1..(count + 1) |-> 0]
        ELSE LET d == ch[Min(tg)]
                 payload == [i \in 1..count |-> DevByte(d, request[2] + i - 1)]
             IN  Append(payload, crc8(crc8_table, request \o payload, 0))

(* One bit of a response inverted on the wire (bit 0 is the least          *)
(* significant bit of the first byte); NoFlip leaves it as sent.           *)
NoFlip == 0 - 1

FlipBit(resp, bit) ==
    IF bit = NoFlip THEN resp
    ELSE [i \in 1..Len(resp) |->
            IF i = (bit \div 8) + 1
            THEN BitXor(resp[i], Pow2(bit % 8)) ELSE resp[i]]


(***************************************************************************)
(* The transport.  A world w is the driver's batch (bq_ctl, xfer_index,    *)
(* byte_index) together with the chain it talks to and the frames the bus  *)
(* has carried; the operators below are the driver's functions on it.      *)
(* ctl.msg lists the indices of the queued transfers in bus order.  oob    *)
(* names the arrays (xfer[MAX_XFER], the SPI_BUFF_SIZE buffers) that were  *)
(* accessed outside their bounds or while they were not allocated.         *)
(***************************************************************************)
BuffIndex == 0..(SPI_BUFF_SIZE - 1)
XferIndex == 0..(MAX_XFER - 1)

GetTx(w, i) == IF i \in BuffIndex THEN w.ctl.tx_buff[i] ELSE 0
GetRx(w, i) == IF i \in BuffIndex THEN w.ctl.rx_buff[i] ELSE 0

PutTx(w, i, b) ==
    IF i \in BuffIndex THEN [w EXCEPT !.ctl.tx_buff[i] = b]
    ELSE [w EXCEPT !.oob = @ \cup {"tx_buff"}]

PutRx(w, i, b) ==
    IF i \in BuffIndex THEN [w EXCEPT !.ctl.rx_buff[i] = b]
    ELSE [w EXCEPT !.oob = @ \cup {"rx_buff"}]

SetXfer(w, xi, x) ==
    IF xi \in XferIndex THEN [w EXCEPT !.ctl.xfer[xi] = x]
    ELSE [w EXCEPT !.oob = @ \cup {"xfer"}]

TxBytes(w, from, n) == [i \in 1..n |-> GetTx(w, from + i - 1)]
RxBytes(w, from, n) == [i \in 1..n |-> GetRx(w, from + i - 1)]

RECURSIVE PutRxBytes(_, _, _)
PutRxBytes(w, from, bytes) ==
    IF bytes = <<>> THEN w
    ELSE PutRxBytes(PutRx(w, from, Head(bytes)), from + 1, Tail(bytes))

(* bq_prepare_spi_message without xfer_index = -1 and byte_index = 0.      *)
bq_prepare_spi_message_keeps_indices(w) ==
    [w EXCEPT !.ctl.msg = <<>>,
              !.ctl.rx_buff = [i \in BuffIndex |-> 0]]

bq_prepare_spi_message(w) ==
    [w EXCEPT !.ctl.msg = <<>>,
              !.ctl.rx_buff = [i \in BuffIndex |-> 0],
              !.xfer_index = -1,
              !.byte_index = 0]

(* One transfer of a message on the bus: a write frame acts on the chain,  *)
(* a read frame is answered into rx_buf behind the three request bytes.    *)
Transfer(w, xi, flip) ==
    IF xi \notin XferIndex THEN [w EXCEPT !.oob = @ \cup {"xfer"}]
    ELSE
    LET x == w.ctl.xfer[xi]
        frame == TxBytes(w, x.tx_buf, 3)
    IN  IF frame[1] % 2 = 1
        THEN [w EXCEPT !.chain = ChainWrite(@, frame[1] \div 2, frame[2], frame[3]),
                       !.bus_log = Append(@, [op |-> "W", address |-> frame[1] \div 2,
                                              reg |-> frame[2], data |-> frame[3]])]
        ELSE LET count == x.len - 4
                 resp == FlipBit(Response(w.chain, frame, count), flip)
                 w1 == [w EXCEPT !.bus_log = Append(@, [op |-> "R", address |-> frame[1] \div 2,
                                                        reg |-> frame[2], data |-> frame[3]])]
             IN  IF x.rx_buf = NULL THEN w1
                 ELSE PutRxBytes(w1, x.rx_buf + 3, resp)

RECURSIVE RunXfers(_, _, _)
RunXfers(w, k, flip) ==
    IF k > Len(w.ctl.msg) THEN w
    ELSE RunXfers(Transfer(w, w.ctl.msg[k],
                           IF k = Len(w.ctl.msg) THEN flip ELSE NoFlip),
                  k + 1, flip)

(* spi_sync: the whole queued message goes out, in order.  ev is what the  *)
(* bus does to this execution: ev.status is the status it returns (a       *)
(* failed execution carries nothing), ev.flip a bit of the last response   *)
(* it corrupts.                                                            *)
spi_sync(w, ev) ==
    IF ev.status # 0 THEN [w |-> w, status |-> ev.status]
    ELSE [w |-> RunXfers(w, 1, ev.flip), status |-> 0]

writeRegister(w, address, reg, data) ==
    IF w.xfer_index >= MAX_XFER THEN [w |-> w, ret |-> -EFAULT]
    ELSE
    LET xi == w.xfer_index + 1
        bi == w.byte_index
        command == BitOr((address * 2) % 256, 1)
        w1 == SetXfer(w, xi, [cs_change |-> 1, tx_buf |-> bi,
                              rx_buf |-> NULL, len |-> 4])
        w2 == PutTx(PutTx(PutTx(w1, bi, command), bi + 1, reg), bi + 2, data)
        w3 == PutTx(w2, bi + 3, crc8(crc8_table, TxBytes(w2, bi, 3), 0))
    IN  [w |-> [w3 EXCEPT !.xfer_index = xi,
                          !.byte_index = bi + 4,
                          !.ctl.msg = Append(@, xi)],
         ret |-> 0]

(* *(char* )p: the byte as the build's char, signed or unsigned.            *)
AsChar(b, signed) == IF signed /\ b >= 128 THEN b - 256 ELSE b

(* if(crc != *(char* )(rx_buf+count+3)): the received frame is rejected.     *)
CrcMismatch_ignored(crc, byte, signed) == FALSE

CrcMismatch(crc, byte, signed) == crc # AsChar(byte, signed)

readRegister(w, address, reg, count, ev, signed) ==
    IF count # 1 /\ count # 2 THEN [w |-> w, ret |-> -EFAULT]
    ELSE
    LET xi == w.xfer_index + 1
        bi == w.byte_index
    IN  IF xi >= MAX_XFER
        THEN [w |-> [w EXCEPT !.xfer_index = xi], ret |-> -EFAULT]
        ELSE
        LET w1 == SetXfer(w, xi, [cs_change |-> 1, tx_buf |-> bi,
                                  rx_buf |-> bi, len |-> 4 + count])
            w2 == PutTx(PutTx(PutTx(w1, bi, (address * 2) % 256), bi + 1, reg),
                        bi + 2, count)
            w3 == [w2 EXCEPT !.xfer_index = xi,
                             !.byte_index = bi + 3 + count + 1,
                             !.ctl.msg = Append(@, xi)]
            s == spi_sync(w3, ev)
            x == s.w.ctl.xfer[xi]
            result == RxBytes(s.w, bi + 3, count)
            crc == crc8(crc8_table, RxBytes(s.w, x.rx_buf + 3, count),
                        crc8(crc8_table, TxBytes(s.w, x.tx_buf, 3), 0))
        IN  IF s.status # 0 THEN [w |-> s.w, ret |-> s.status]
            ELSE IF CrcMismatch(crc, GetRx(s.w, x.rx_buf + count + 3), signed)
                THEN [w |-> s.w, ret |-> -EFAULT]
            ELSE IF count = 1 THEN [w |-> s.w, ret |-> result[1]]
            ELSE [w |-> s.w, ret |-> result[1] * 256 + result[2]]


(***************************************************************************)
(* The state.                                                              *)
(*   bq_ctl, xfer_index, byte_index  the batch (struct bq_control and the  *)
(*                                   two static indices)                   *)
(*   oob            the arrays accessed out of their bounds or lifetime    *)
(*   chain          the chips on the bus                                   *)
(*   bus_log        the frames the bus carried in the running operation    *)
(*   char_signed    whether char is signed in this build                   *)
(*   devices_used, cells_per_device, total_cell_count, cells               *)
(*                  the driver's globals; cells is the CellTap table       *)
(*   pc, loc        position and locals of the running operation           *)
(*   faults         how many more times the bus may misbehave              *)
(*   user_buff      the bytes a poll cycle emitted                         *)
(*   spi_sem, fop_sem, thr, heap   the two semaphores, the position of     *)
(*                  each thread in its handler, the buffers allocated      *)
(***************************************************************************)
VARIABLES bq_ctl, xfer_index, byte_index, oob, chain, bus_log, char_signed,
          devices_used, cells_per_device, total_cell_count, cells,
          pc, loc, faults, user_buff, spi_sem, fop_sem, thr, heap

tvars == <<bq_ctl, xfer_index, byte_index, oob, chain, bus_log>>
gvars == <<devices_used, cells_per_device, total_cell_count, cells>>
svars == <<spi_sem, fop_sem, thr, heap>>
vars == <<bq_ctl, xfer_index, byte_index, oob, chain, bus_log, char_signed,
          devices_used, cells_per_device, total_cell_count, cells,
          pc, loc, faults, user_buff, spi_sem, fop_sem, thr, heap>>

World ==
    [ctl |-> bq_ctl, xfer_index |-> xfer_index, byte_index |-> byte_index,
     oob |-> oob, chain |-> chain, bus_log |-> bus_log]

SetWorld(w) ==
    /\ bq_ctl' = w.ctl
    /\ xfer_index' = w.xfer_index
    /\ byte_index' = w.byte_index
    /\ oob' = w.oob
    /\ chain' = w.chain
    /\ bus_log' = w.bus_log

(* struct bq_control after bq_init's memset and bq_probe's allocations.    *)
InitCtl ==
    [msg |-> <<>>,
     xfer |-> [i \in XferIndex |-> [cs_change |-> 0, tx_buf |-> NULL,
                                    rx_buf |-> NULL, len |-> 0]],
     tx_buff |-> [i \in BuffIndex |-> 0],
     rx_buff |-> [i \in BuffIndex |-> 0]]

(* static int cells_per_device[MAX_BQ_DEVICES+1] as the module declares it. *)
InitCellsPerDevice ==
    [i \in 0..MAX_BQ_DEVICES |-> IF i \in 1..3 THEN 4 ELSE IF i = 4 THEN 3 ELSE 0]

(* A chip holding address a, its registers at rest.                        *)
Chip(a) ==
    [addr |-> a, mode |-> "ok", vcell |-> <<0, 0, 0, 0, 0, 0>>,
     temp |-> <<2048, 2048>>, fault |-> 0, alert |-> 0, cuv |-> 0, cov |-> 0,
     conv |-> "idle"]

(* What the bus may do to the execution that carries a read of count       *)
(* bytes: carry it, fail it, or invert one bit of the answer.              *)
BusOk == [status |-> 0, flip |-> NoFlip]
BusFail == [status |-> -5, flip |-> NoFlip]
BusEvents(count) ==
    {BusOk, BusFail} \cup {[status |-> 0, flip |-> b] : b \in 0..(8 * (count + 1) - 1)}

(* The same with two of the bits only: the lowest of the payload and the   *)
(* lowest of the CRC byte.  Nothing but BusOk once the budget is spent.    *)
BusFaults(count, budget) ==
    IF budget = 0 THEN {BusOk}
    ELSE {BusOk, BusFail, [status |-> 0, flip |-> 0],
          [status |-> 0, flip |-> 8 * count]}

Spent(ev) == IF ev = BusOk THEN 0 ELSE 1


(***************************************************************************)
(* SpecCodec: one call of readRegister or writeRegister on a fresh batch,  *)
(* for every input of the bounded sets below.  The chip at loc.address     *)
(* holds loc.value in the register pair at VCELL1, so that a one-byte read *)
(* of VCELL1 + 1 sees every byte and a two-byte read of VCELL1 the pair.   *)
(***************************************************************************)
CodecAddrs == {1, 31}
CodecRegs == {VCELL1, VCELL1 + 1}
CodecValues == (0..255) \cup {1000, 1001, 2048, 32768, 65535}
CodecData == {0, 1, 165, 255}

InitCodec ==
    /\ char_signed \in BOOLEAN
    /\ \E a \in CodecAddrs, r \in CodecRegs, c \in {1, 2}, v \in CodecValues :
          /\ r + c - 1 <= VCELL1 + 1
          /\ loc = [address |-> a, reg |-> r, count |-> c, value |-> v,
                    ev |-> BusOk, ret |-> 0]
          /\ chain = <<[Chip(a) EXCEPT !.vcell[1] = v]>>
    /\ bq_ctl = bq_prepare_spi_message([ctl |-> InitCtl, xfer_index |-> 0,
                                        byte_index |-> 0]).ctl
    /\ xfer_index = -1
    /\ byte_index = 0
    /\ oob = {}
    /\ bus_log = <<>>
    /\ devices_used = 1
    /\ cells_per_device = InitCellsPerDevice
    /\ total_cell_count = 0
    /\ cells = <<>>
    /\ pc = "codec_call"
    /\ faults = 0
    /\ user_buff = <<>>
    /\ spi_sem = 1
    /\ fop_sem = 1
    /\ thr = <<>>
    /\ heap = {}

CodecRead ==
    /\ pc = "codec_call"
    /\ \E ev \in BusEvents(loc.count) :
          \E r \in {readRegister(World, loc.address, loc.reg, loc.count, ev,
                                char_signed)} :
              /\ SetWorld(r.w)
              /\ loc' = [loc EXCEPT !.ev = ev, !.ret = r.ret]
    /\ pc' = "codec_read_done"
    /\ UNCHANGED <<char_signed, gvars, faults, user_buff, svars>>

CodecWrite ==
    /\ pc = "codec_call"
    /\ loc.count = 1
    /\ \E d \in CodecData :
          \E r \in {writeRegister(World, loc.address, loc.reg, d)} :
              /\ SetWorld(r.w)
              /\ loc' = [loc EXCEPT !.value = d, !.ret = r.ret]
    /\ pc' = "codec_write_done"
    /\ UNCHANGED <<char_signed, gvars, faults, user_buff, svars>>

NextCodec == CodecRead \/ CodecWrite

SpecCodec == InitCodec /\ [][NextCodec]_vars

(* The value the read of the codec specification was meant to return: the  *)
(* byte at loc.reg, or the big-endian pair.                                *)
Injected ==
    LET v == loc.value
    IN  IF loc.count = 2 THEN v
        ELSE IF loc.reg = VCELL1 THEN Hi(v) ELSE Lo(v)

(* The CRC byte the chip sent with that value.                             *)
SentCrc ==
    LET pay == IF loc.count = 2 THEN <<Hi(loc.value), Lo(loc.value)>>
               ELSE <<Injected>>
    IN  crc8(crc8_table, <<(loc.address * 2) % 256, loc.reg, loc.count>> \o pay, 0)

(* C3: a read whose response arrives intact, with the correct CRC-8 byte,  *)
(* returns exactly the injected value (the byte, or the big-endian pair),  *)
(* whatever the value of the CRC byte.                                     *)
C3_ReadReturnsInjected ==
    (pc = "codec_read_done" /\ loc.ev = BusOk) => loc.ret = Injected

(* C4: a read whose response differs from the correctly CRC'd one in a     *)
(* single bit reports an error (a negative result) and no payload value.   *)
C4_SingleBitRejected ==
    (pc = "codec_read_done" /\ loc.ev.flip # NoFlip) => loc.ret = -EFAULT

C4_Witness ==
    /\ pc = "codec_read_done"
    /\ loc.ev.flip # NoFlip
    /\ loc.ev.status = 0
    /\ loc.count = 2
    /\ loc.ret = -EFAULT
    /\ bq_ctl.rx_buff[3] * 256 + bq_ctl.rx_buff[4] # Injected


(***************************************************************************)
(* SpecTransport: after a batch reset, any sequence of at most MaxCalls    *)
(* calls of writeRegister and readRegister, on a bus that carries every    *)
(* execution.  loc.before is the batch as the last call found it.  Once an *)
(* array has been accessed out of bounds the program's memory is no longer *)
(* what the model holds, and it stops.                                     *)
(***************************************************************************)
Batch == <<xfer_index, byte_index, bq_ctl.msg>>

InitTransport ==
    /\ char_signed \in BOOLEAN
    /\ chain = <<Chip(1)>>
    /\ bq_ctl = bq_prepare_spi_message([ctl |-> InitCtl, xfer_index |-> 0,
                                        byte_index |-> 0]).ctl
    /\ xfer_index = -1
    /\ byte_index = 0
    /\ oob = {}
    /\ bus_log = <<>>
    /\ devices_used = 1
    /\ cells_per_device = InitCellsPerDevice
    /\ total_cell_count = 0
    /\ cells = <<>>
    /\ pc = "batch"
    /\ loc = [calls |-> 0, ret |-> 0, before |-> <<-1, 0, <<>>>>]
    /\ faults = 0
    /\ user_buff = <<>>
    /\ spi_sem = 1
    /\ fop_sem = 1
    /\ thr = <<>>
    /\ heap = {}

CallWrite ==
    /\ pc = "batch" /\ oob = {} /\ loc.calls < MaxCalls
    /\ \E r \in {writeRegister(World, BROADCAST, ADC_CONVERT, AC_CONV)} :
           /\ SetWorld([r.w EXCEPT !.bus_log = <<>>])
           /\ loc' = [calls |-> loc.calls + 1, ret |-> r.ret, before |-> Batch]
    /\ UNCHANGED <<char_signed, gvars, pc, faults, user_buff, svars>>

(* The reads alternate between one and two bytes with the call's number.   *)
CallRead ==
    /\ pc = "batch" /\ oob = {} /\ loc.calls < MaxCalls
    /\ \E r \in {readRegister(World, 1, DEVICE_STATUS, 1 + (loc.calls % 2),
                                BusOk, char_signed)} :
           /\ SetWorld([r.w EXCEPT !.bus_log = <<>>])
           /\ loc' = [calls |-> loc.calls + 1, ret |-> r.ret, before |-> Batch]
    /\ UNCHANGED <<char_signed, gvars, pc, faults, user_buff, svars>>

NextTransport == CallWrite \/ CallRead

SpecTransport == InitTransport /\ [][NextTransport]_vars

(* C9: after a batch reset the batch never holds more than MAX_XFER        *)
(* transactions, the transfer array is never indexed at or beyond          *)
(* MAX_XFER, and a call made when the batch is full returns an error and   *)
(* leaves the batch (transfer index, byte index, queued transfers) as it   *)
(* found it.                                                               *)
C9_BatchWithinCapacity ==
    /\ Len(bq_ctl.msg) <= MAX_XFER
    /\ "xfer" \notin oob
    /\ (loc.calls > 0 /\ Len(loc.before[3]) >= MAX_XFER)
          => (loc.ret = -EFAULT /\ Batch = loc.before)


(***************************************************************************)
(* SpecDiscovery: search_pack on a chain of 1..MaxDev chips, for every     *)
(* configured device count 1..MaxDev+1.  Before the search the chips are   *)
(* fresh (no address), hold the addresses of a previous run, or sit with   *)
(* bogus addresses behind an unaddressed first chip.  At most one chip is  *)
(* broken: "deaf" ignores the address written to it, "norqst" takes it but *)
(* answers without the request bit.  loc.fault counts the executions the   *)
(* bus failed or corrupted.                                                *)
(***************************************************************************)
StaleKinds == {"fresh", "previous", "bogus"}

StaleAddr(kind, p) ==
    IF kind = "fresh" THEN 0
    ELSE IF kind = "previous" THEN p
    ELSE IF p = 1 THEN 0 ELSE 40 + p

Modes(n) ==
    {[p \in 1..n |-> "ok"]}
    \cup {[p \in 1..n |-> IF p = k THEN m ELSE "ok"] :
             k \in 1..n, m \in {"deaf", "norqst"}}

InitDiscovery ==
    /\ char_signed \in BOOLEAN
    /\ \E n \in 1..MaxDev, kind \in StaleKinds :
          \E md \in Modes(n) :
             chain = [p \in 1..n |->
                        [Chip(StaleAddr(kind, p)) EXCEPT !.mode = md[p]]]
    /\ devices_used \in 1..(MaxDev + 1)
    /\ bq_ctl = InitCtl
    /\ xfer_index = 0
    /\ byte_index = 0
    /\ oob = {}
    /\ bus_log = <<>>
    /\ cells_per_device = InitCellsPerDevice
    /\ total_cell_count = 0
    /\ cells = <<>>
    /\ pc = "search_pack"
    /\ loc = [look_for |-> 0, n |-> 0, verify |-> 0, ret |-> 0, fault |-> 0]
    /\ faults = MaxFaults
    /\ user_buff = <<>>
    /\ spi_sem = 1
    /\ fop_sem = 1
    /\ thr = <<>>
    /\ heap = {}

(* u8 search_pack(void): the value returned, as the u8 it is.              *)
AsU8(v) == v % 256

(* look_for = 0; bq_prepare_spi_message();                                 *)
SearchEnter ==
    /\ pc = "search_pack"
    /\ SetWorld(bq_prepare_spi_message(World))
    /\ loc' = [loc EXCEPT !.look_for = 0]
    /\ pc' = "search_reset"
    /\ UNCHANGED <<char_signed, gvars, faults, user_buff, svars>>

(* The head of the outer loop without the writeRegister of the RESET.      *)
SearchReset_unqueued ==
    /\ pc = "search_reset"
    /\ loc' = [loc EXCEPT !.look_for = AsU8(@ + 1), !.n = 0]
    /\ pc' = "search_probe"
    /\ UNCHANGED <<tvars, char_signed, gvars, faults, user_buff, svars>>

(* The head of the outer loop: queue the broadcast RESET, look_for++, n=0. *)
SearchReset ==
    /\ pc = "search_reset"
    /\ \E r \in {writeRegister(World, BROADCAST, RESET, RESET_COMMAND)} :
           /\ SetWorld(r.w)
           /\ IF r.ret # 0
              THEN /\ loc' = [loc EXCEPT !.ret = AsU8(r.ret)]
                   /\ pc' = "search_done"
              ELSE /\ loc' = [loc EXCEPT !.look_for = AsU8(@ + 1), !.n = 0]
                   /\ pc' = "search_probe"
    /\ UNCHANGED <<char_signed, gvars, faults, user_buff, svars>>

(* The head of the inner loop: n++, queue the address write to the         *)
(* discovery address, read the address back from address n.                *)
SearchProbe ==
    /\ pc = "search_probe"
    /\ \E n \in {AsU8(loc.n + 1)} :
       \E wr \in {writeRegister(World, DISCOVERY_ADDR, ADDRESS_CONTROL, n)} :
           IF wr.ret # 0
           THEN /\ SetWorld(wr.w)
                /\ loc' = [loc EXCEPT !.n = n, !.ret = AsU8(wr.ret)]
                /\ pc' = "search_done"
                /\ UNCHANGED faults
           ELSE \E ev \in BusFaults(1, faults) :
                   \E rd \in {readRegister(wr.w, n, ADDRESS_CONTROL, 1, ev,
                                             char_signed)} :
                       /\ SetWorld(rd.w)
                       /\ loc' = [loc EXCEPT !.n = n, !.verify = rd.ret,
                                             !.fault = @ + Spent(ev)]
                       /\ faults' = faults - Spent(ev)
                       /\ pc' = "search_verify"
    /\ UNCHANGED <<char_signed, gvars, user_buff, svars>>

(* if (verify < 0) return n-1; if (verify != (n | AC_ADDR_RQST)) return n-1 *)
VerifyRejected_errors_only(verify, n) == verify < 0

VerifyRejected(verify, n) == verify < 0 \/ verify # BitOr(n, AC_ADDR_RQST)

(* The rest of the inner loop's body and the two loop conditions.          *)
SearchVerify ==
    /\ pc = "search_verify"
    /\ IF VerifyRejected(loc.verify, loc.n)
       THEN /\ loc' = [loc EXCEPT !.ret = AsU8(loc.n - 1)]
            /\ pc' = "search_done"
            /\ UNCHANGED tvars
       ELSE /\ SetWorld(bq_prepare_spi_message(World))
            /\ IF loc.n < loc.look_for
               THEN pc' = "search_probe" /\ UNCHANGED loc
               ELSE IF loc.n < devices_used
               THEN pc' = "search_reset" /\ UNCHANGED loc
               ELSE pc' = "search_done" /\ loc' = [loc EXCEPT !.ret = loc.n]
    /\ UNCHANGED <<char_signed, gvars, faults, user_buff, svars>>

NextDiscovery == SearchEnter \/ SearchReset \/ SearchProbe \/ SearchVerify

SpecDiscovery == InitDiscovery /\ [][NextDiscovery]_vars

SoundChain == \A p \in 1..Len(chain) : chain[p].mode = "ok"

(* C1: on a chain of N sound chips, with a configured count of at least N  *)
(* and a bus that carries every execution, search_pack returns N and the   *)
(* chip at position i holds address i.                                     *)
C1_DiscoveryFindsAll ==
    (pc = "search_done" /\ SoundChain /\ loc.fault = 0
        /\ devices_used >= Len(chain))
    => (loc.ret = Len(chain) /\ \A p \in 1..Len(chain) : chain[p].addr = p)

(* C2: when the verification read of address k is rejected (transport      *)
(* error, CRC error or a value other than k | AC_ADDR_RQST), the next step *)
(* of search_pack is its return of k-1, and the bus carries nothing more.  *)
C2_RejectStopsSearch ==
    [][(pc = "search_verify"
          /\ (loc.verify < 0 \/ loc.verify # BitOr(loc.n, AC_ADDR_RQST)))
       => (pc' = "search_done" /\ loc'.ret = loc.n - 1
             /\ bus_log' = bus_log /\ chain' = chain)]_vars

C2_Witness ==
    /\ pc = "search_done"
    /\ loc.n = 2
    /\ loc.ret = 1
    /\ loc.verify >= 0
    /\ loc.verify # BitOr(loc.n, AC_ADDR_RQST)


(* The frames of the inner loop for n = 1..k: the address write to the     *)
(* discovery address and the read of ADDRESS_CONTROL at address n.          *)
RECURSIVE ProbeFrames(_)
ProbeFrames(k) ==
    IF k = 0 THEN <<>>
    ELSE ProbeFrames(k - 1)
         \o <<[op |-> "W", address |-> DISCOVERY_ADDR, reg |-> ADDRESS_CONTROL,
                data |-> k],
               [op |-> "R", address |-> k, reg |-> ADDRESS_CONTROL, data |-> 1]>>

(* The frames of the outer passes with look_for = 1..passes.               *)
RECURSIVE SearchFrames(_)
SearchFrames(passes) ==
    IF passes = 0 THEN <<>>
    ELSE SearchFrames(passes - 1)
         \o <<[op |-> "W", address |-> BROADCAST, reg |-> RESET,
                data |-> RESET_COMMAND]>>
         \o ProbeFrames(passes)

(* C23: what the bus carries during search_pack is, pass after pass, the   *)
(* broadcast RESET followed by the address writes 1, 2, ..., look_for to   *)
(* the discovery address, each followed at once by the read of that        *)
(* address; look_for is 1 in the first pass and one more in each next.     *)
C23_PassesInOrder ==
    /\ [](LET ideal == SearchFrames(devices_used)
          IN  /\ Len(bus_log) <= Len(ideal)
              /\ \A k \in 1..Len(bus_log) : bus_log[k] = ideal[k])
    /\ []((pc = "search_verify" /\ loc.verify # BusFail.status)
            => bus_log = SearchFrames(loc.look_for - 1)
                         \o <<[op |-> "W", address |-> BROADCAST, reg |-> RESET,
                                data |-> RESET_COMMAND]>>
                         \o ProbeFrames(loc.n))
    /\ [][loc'.look_for # loc.look_for
            => (pc = "search_reset" /\ loc'.look_for = loc.look_for + 1)]_vars

(* A search of two passes that found two chips: RESET, 1, RESET, 1, 2.     *)
C23_Witness ==
    /\ pc = "search_done"
    /\ loc.ret = 2
    /\ loc.look_for = 2
    /\ devices_used = 2
    /\ bus_log = SearchFrames(2)
    /\ Len(bus_log) = 8

(***************************************************************************)
(* SpecCensus: the cell census of bq_probe, from the state search_pack,    *)
(* write_defaults and get_chip_status leave: loc.count chips hold the      *)
(* addresses 1..count and devices_used = count.  Each chip's six taps read *)
(* as one of the Profiles.  While the budget lasts the environment may     *)
(* fail the execution that carries a read, or let the tap's voltage rise   *)
(* or fall just before the read; loc.fault counts what it did.             *)
(***************************************************************************)
Profiles ==
    { <<3000, 3000, 3000, 3000, 3000, 3000>>,
      <<3000, 3000, 3000, 1001, 1000, 0>>,
      <<3000, 0, 3000, 0, 3000, 999>>,
      <<0, 0, 0, 0, 0, 0>> }

TapRegs == {VCELL1 + 2 * t : t \in 0..((VCELL6 - VCELL1) \div 2)}
TapOf(j) == ((j - VCELL1) \div 2) + 1

CensusEvents(budget) ==
    IF budget = 0 THEN {"ok"} ELSE {"ok", "fail", "rise", "fall"}

Drift(ch, i, j, e) ==
    IF e = "rise" THEN [ch EXCEPT ![i].vcell[TapOf(j)] = 3000]
    ELSE IF e = "fall" THEN [ch EXCEPT ![i].vcell[TapOf(j)] = 0]
    ELSE ch

(* bq_prepare_spi_message(); temp = readRegister(i, j, 2);                  *)
TapRead(w, i, j, e, signed) ==
    readRegister(bq_prepare_spi_message([w EXCEPT !.chain = Drift(@, i, j, e)]),
                 i, j, 2, IF e = "fail" THEN BusFail ELSE BusOk, signed)

InitCensus ==
    /\ char_signed \in BOOLEAN
    /\ \E n \in 1..MaxDev :
          /\ \E pr \in [1..n -> Profiles] :
                chain = [p \in 1..n |-> [Chip(p) EXCEPT !.vcell = pr[p]]]
          /\ devices_used = n
          /\ loc = [count |-> n, i |-> 0, j |-> 0, chip_cell_count |-> 0,
                    cell_index |-> 0, temp |-> 0, size |-> 0, retval |-> 0,
                    fault |-> 0]
    /\ bq_ctl = InitCtl
    /\ xfer_index = -1
    /\ byte_index = 0
    /\ oob = {}
    /\ bus_log = <<>>
    /\ cells_per_device = InitCellsPerDevice
    /\ total_cell_count = 0
    /\ cells = <<>>
    /\ pc = "census"
    /\ faults = MaxFaults
    /\ user_buff = <<>>
    /\ spi_sem = 0
    /\ fop_sem = 1
    /\ thr = <<>>
    /\ heap = {"tx_buff", "rx_buff", "crc8_table"}

(* total_cell_count = 0; and the heads of the two loops.                   *)
CensusEnter ==
    /\ pc = "census"
    /\ total_cell_count' = 0
    /\ loc' = [loc EXCEPT !.i = 1, !.j = VCELL1, !.chip_cell_count = 0]
    /\ pc' = "census_count"
    /\ UNCHANGED <<tvars, char_signed, devices_used, cells_per_device, cells,
                   faults, user_buff, svars>>

(* if (temp > CELL_MISSING_THRESHOLD)                                      *)
TapPopulated(temp) == temp > CELL_MISSING_THRESHOLD

(* One pass of the inner loop that counts the cells; after the sixth tap   *)
(* of a chip, the comparison with cells_per_device[i].                     *)
CensusCount ==
    /\ pc = "census_count"
    /\ \E e \in CensusEvents(faults) :
          \E r \in {TapRead(World, loc.i, loc.j, e, char_signed)} :
          LET hit == IF TapPopulated(r.ret) THEN 1 ELSE 0
              found == loc.chip_cell_count + hit
              last == loc.j + 2 > VCELL6
          IN  /\ SetWorld(r.w)
              /\ faults' = faults - (IF e = "ok" THEN 0 ELSE 1)
              /\ total_cell_count' = total_cell_count + hit
              /\ cells_per_device' =
                    IF last /\ cells_per_device[loc.i] # found
                    THEN [cells_per_device EXCEPT ![loc.i] = found]
                    ELSE cells_per_device
              /\ loc' = [loc EXCEPT
                           !.temp = r.ret,
                           !.fault = @ + (IF e = "ok" THEN 0 ELSE 1),
                           !.chip_cell_count = IF last THEN 0 ELSE found,
                           !.j = IF last THEN VCELL1 ELSE loc.j + 2,
                           !.i = IF last THEN loc.i + 1 ELSE loc.i]
              /\ pc' = IF last /\ loc.i + 1 >= loc.count + 1
                       THEN "census_alloc" ELSE "census_count"
    /\ UNCHANGED <<char_signed, devices_used, cells, user_buff, svars>>

(* cells = kmalloc(total_cell_count*sizeof(cell_t), GFP_KERNEL), which may *)
(* fail; cell_index = 0 and the heads of the loops that fill the table.    *)
CensusAlloc ==
    /\ pc = "census_alloc"
    /\ \/ /\ heap' = heap \cup {"cells"}
          /\ cells' = <<>>
          /\ loc' = [loc EXCEPT !.size = total_cell_count, !.cell_index = 0,
                                !.i = 1, !.j = VCELL1]
          /\ pc' = "census_fill"
       \/ /\ heap' = {}
          /\ cells' = <<>>
          /\ loc' = [loc EXCEPT !.retval = -12]
          /\ pc' = "probe_failed"
    /\ UNCHANGED <<tvars, char_signed, devices_used, cells_per_device,
                   total_cell_count, faults, user_buff, spi_sem, fop_sem, thr>>

(* cells[cell_index].chip = i; cells[cell_index++].index = j;              *)
StoreCell(tbl, size, index, i, j) ==
    [cells |-> Append(tbl, [chip |-> i, index |-> j]),
     over |-> index >= size]

(* One pass of the inner loop that fills the table; after the last tap of  *)
(* the last chip, up(&bq_dev.spi_sem) and the return.                      *)
CensusFill ==
    /\ pc = "census_fill"
    /\ \E e \in CensusEvents(faults) :
          \E r \in {TapRead(World, loc.i, loc.j, e, char_signed)} :
          LET hit == TapPopulated(r.ret)
              st == StoreCell(cells, loc.size, loc.cell_index, loc.i, loc.j)
              last == loc.j + 2 > VCELL6
              done == last /\ loc.i + 1 >= loc.count + 1
          IN  /\ SetWorld(IF hit /\ st.over
                          THEN [r.w EXCEPT !.oob = @ \cup {"cells"}] ELSE r.w)
              /\ faults' = faults - (IF e = "ok" THEN 0 ELSE 1)
              /\ cells' = IF hit THEN st.cells ELSE cells
              /\ loc' = [loc EXCEPT
                           !.temp = r.ret,
                           !.fault = @ + (IF e = "ok" THEN 0 ELSE 1),
                           !.cell_index = IF hit THEN @ + 1 ELSE @,
                           !.j = IF last THEN VCELL1 ELSE loc.j + 2,
                           !.i = IF last THEN loc.i + 1 ELSE loc.i]
              /\ pc' = IF done THEN "probe_done" ELSE "census_fill"
              /\ spi_sem' = IF done THEN spi_sem + 1 ELSE spi_sem
    /\ UNCHANGED <<char_signed, devices_used, cells_per_device,
                   total_cell_count, user_buff, fop_sem, thr, heap>>

NextCensus == CensusEnter \/ CensusCount \/ CensusAlloc \/ CensusFill

SpecCensus == InitCensus /\ [][NextCensus]_vars

(* C7: after attach completes the number of entries written into the      *)
(* CellTap table equals total_cell_count, the size it was allocated with,  *)
(* and no entry was written past its end.                                  *)
C7_TableFilledExactly ==
    pc = "probe_done"
    => (Len(cells) = total_cell_count /\ loc.size = total_cell_count
          /\ "cells" \notin oob)

(* The reading of a tap as the chain holds it.                              *)
Raw(i, j) == chain[i].vcell[TapOf(j)]

PopulatedTaps ==
    {t \in (1..Len(chain)) \X TapRegs : Raw(t[1], t[2]) > 1000}

(* C8: with readings that stay as they are and a bus that carries every    *)
(* execution, the census keeps exactly the taps whose raw reading is above *)
(* 1000; total_cell_count is their number and the CellTap table lists them *)
(* in increasing (device, register) order.                                 *)
C8_CensusExact ==
    (pc = "probe_done" /\ loc.fault = 0)
    => /\ total_cell_count = Cardinality(PopulatedTaps)
       /\ Len(cells) = Cardinality(PopulatedTaps)
       /\ \A k \in 1..Len(cells) : <<cells[k].chip, cells[k].index>> \in PopulatedTaps
       /\ \A k \in 1..(Len(cells) - 1) :
             \/ cells[k].chip < cells[k + 1].chip
             \/ /\ cells[k].chip = cells[k + 1].chip
                /\ cells[k].index < cells[k + 1].index

(* C17: after attach completes, the cell count recorded for every          *)
(* discovered device, cells_per_device[i] for i in 1..count, is one of     *)
(* 3, 4, 5, 6, whatever the taps read during the census.                   *)
C17_CellCountInRange ==
    pc = "probe_done"
    => \A i \in 1..loc.count : cells_per_device[i] \in 3..6

(***************************************************************************)
(* SpecPoll: one bq_read that holds fop_sem and runs one poll cycle,       *)
(* get_voltages, on the state a completed attach                           *)
(* leaves: the chips hold the addresses 1..devices_used and the CellTap    *)
(* table lists the taps the census of this build kept.  While the budget   *)
(* lasts the bus may fail or corrupt an execution.  The conversion the     *)
(* cycle starts finishes when the chips please.  user_buff holds the bytes *)
(* written through p; loc.from holds, for each of them, the value          *)
(* readRegister returned for it (0 for a byte that is not read from the    *)
(* bus), loc.waits the values the reads of the waiting loop returned.      *)
(***************************************************************************)
PollProfiles ==
    { <<3000, 3000, 3000, 3000, 3000, 3000>>,
      <<3000, 3000, 3000, 2000, 0, 0>>,
      <<65535, 13370, 1001, 0, 0, 0>> }

(* The two temperatures and the fault, alert, undervoltage and overvoltage *)
(* registers of every chip: at rest, or with something to report.          *)
PollConditions ==
    { [temp |-> <<5048, 2048>>, st |-> <<0, 0, 0, 0>>],
      [temp |-> <<1000, 2167>>, st |-> <<2, 1, 5, 0>>] }

(* The census of bq_probe on readings that stay as they are: the taps, in  *)
(* the order of the loops, whose read returns more than the threshold.     *)
RECURSIVE CensusTable(_, _, _, _)
CensusTable(w, count, k, signed) ==
    IF k >= 6 * count THEN <<>>
    ELSE LET i == (k \div 6) + 1
             j == VCELL1 + 2 * (k % 6)
             temp == readRegister(bq_prepare_spi_message(w), i, j, 2, BusOk,
                                  signed).ret
         IN  (IF temp > CELL_MISSING_THRESHOLD
              THEN <<[chip |-> i, index |-> j]>> ELSE <<>>)
             \o CensusTable(w, count, k + 1, signed)

CellsOf(tbl, i) == Cardinality({k \in 1..Len(tbl) : tbl[k].chip = i})

InitPoll ==
    /\ char_signed \in BOOLEAN
    /\ \E n \in 1..MaxDev :
          /\ \E pr \in [1..n -> PollProfiles], c \in PollConditions :
                chain = [p \in 1..n |->
                           [Chip(p) EXCEPT !.vcell = pr[p], !.temp = c.temp,
                                           !.fault = c.st[1], !.alert = c.st[2],
                                           !.cuv = c.st[3], !.cov = c.st[4]]]
          /\ devices_used = n
    /\ cells = CensusTable([ctl |-> InitCtl, xfer_index |-> -1, byte_index |-> 0,
                            oob |-> {}, chain |-> chain, bus_log |-> <<>>],
                           devices_used, 0, char_signed)
    /\ total_cell_count = Len(cells)
    /\ cells_per_device = [i \in 0..MAX_BQ_DEVICES |->
                             IF i \in 1..devices_used THEN CellsOf(cells, i)
                             ELSE InitCellsPerDevice[i]]
    /\ bq_ctl = InitCtl
    /\ xfer_index = -1
    /\ byte_index = 0
    /\ oob = {}
    /\ bus_log = <<>>
    /\ pc = "get_voltages"
    /\ loc = [i |-> 0, temp |-> 0, tries |-> 0, ret |-> 0, from |-> <<>>,
              fault |-> 0, waits |-> <<>>, count |-> 0, status |-> 0]
    /\ faults = MaxFaults
    /\ user_buff = <<>>
    /\ spi_sem = 1
    /\ fop_sem = 0
    /\ thr = <<>>
    /\ heap = {"tx_buff", "rx_buff", "crc8_table", "cells"}

(* Integer division as C does it, truncating toward zero (b > 0).          *)
CDiv(a, b) == IF a >= 0 THEN a \div b ELSE 0 - ((0 - a) \div b)

(* *p++ = ((temp * 6250) / 327660);                                        *)
ScaleVoltage(temp) == AsU8(CDiv(temp * 6250, 327660))

(* temp -= 2048; temp /= 120; *p++ = temp;                                 *)
ScaleTemperature(temp) == AsU8(CDiv(temp - 2048, 120))

(* Start the ADC: the broadcast write and the execution that carries it.   *)
PollStart ==
    /\ pc = "get_voltages"
    /\ \E ev \in (IF faults = 0 THEN {BusOk} ELSE {BusOk, BusFail}) :
       \E s \in {spi_sync(writeRegister(bq_prepare_spi_message(World), BROADCAST,
                                        ADC_CONVERT, AC_CONV).w, ev)} :
          /\ SetWorld(s.w)
          /\ faults' = faults - Spent(ev)
          /\ IF s.status # 0
             THEN /\ loc' = [loc EXCEPT !.ret = 0, !.fault = @ + Spent(ev)]
                  /\ pc' = "poll_done"
             ELSE /\ loc' = [loc EXCEPT !.tries = 0, !.fault = @ + Spent(ev)]
                  /\ pc' = "poll_wait"
    /\ UNCHANGED <<char_signed, gvars, user_buff, svars>>

(* The conversion finishes: the chips raise DRDY.                          *)
ConvFinish ==
    /\ pc = "poll_wait"
    /\ \E p \in 1..Len(chain) : chain[p].conv = "busy"
    /\ chain' = [p \in 1..Len(chain) |->
                   IF chain[p].conv = "busy"
                   THEN [chain[p] EXCEPT !.conv = "ready"] ELSE chain[p]]
    /\ UNCHANGED <<bq_ctl, xfer_index, byte_index, oob, bus_log, char_signed,
                   gvars, pc, loc, faults, user_buff, svars>>

(* if (tries++ > 5): the waiting loop gives up.                            *)
GivesUp_late(tries) == tries > 9

GivesUp(tries) == tries > 5

(* One pass of the do-while that waits for DRDY; when it ends,             *)
(* *p++ = total_cell_count.                                                *)
PollWait ==
    /\ pc = "poll_wait"
    /\ \E ev \in BusFaults(1, faults) :
       \E r \in {readRegister(bq_prepare_spi_message(World), 1, DEVICE_STATUS,
                              1, ev, char_signed)} :
          /\ SetWorld(r.w)
          /\ faults' = faults - Spent(ev)
          /\ IF GivesUp(loc.tries)
             THEN /\ loc' = [loc EXCEPT !.temp = r.ret, !.tries = @ + 1,
                                        !.ret = 0, !.fault = @ + Spent(ev),
                                        !.waits = Append(@, r.ret)]
                  /\ pc' = "poll_done"
                  /\ UNCHANGED user_buff
             ELSE IF r.ret % 2 = 0
             THEN /\ loc' = [loc EXCEPT !.temp = r.ret, !.tries = @ + 1,
                                        !.fault = @ + Spent(ev),
                                        !.waits = Append(@, r.ret)]
                  /\ pc' = "poll_wait"
                  /\ UNCHANGED user_buff
             ELSE /\ loc' = [loc EXCEPT !.temp = r.ret, !.tries = @ + 1,
                                        !.fault = @ + Spent(ev), !.i = 0,
                                        !.from = Append(@, 0),
                                        !.waits = Append(@, r.ret)]
                  /\ user_buff' = Append(user_buff, AsU8(total_cell_count))
                  /\ pc' = "poll_cells"
    /\ UNCHANGED <<char_signed, gvars, svars>>

(* One pass of the loop over the CellTap table; when it ends,              *)
(* *p++ = devices_used.                                                    *)
PollCells ==
    /\ pc = "poll_cells"
    /\ IF loc.i < total_cell_count
       THEN \E ev \in BusFaults(2, faults) :
            \E r \in {readRegister(bq_prepare_spi_message(World),
                                   cells[loc.i + 1].chip, cells[loc.i + 1].index,
                                   2, ev, char_signed)} :
               /\ SetWorld(r.w)
               /\ faults' = faults - Spent(ev)
               /\ user_buff' = Append(user_buff, ScaleVoltage(r.ret))
               /\ loc' = [loc EXCEPT !.temp = r.ret, !.i = @ + 1,
                                     !.fault = @ + Spent(ev),
                                     !.from = Append(@, r.ret)]
               /\ pc' = "poll_cells"
       ELSE /\ user_buff' = Append(user_buff, AsU8(devices_used))
            /\ loc' = [loc EXCEPT !.i = 1, !.from = Append(@, 0)]
            /\ pc' = "poll_device"
            /\ UNCHANGED <<tvars, faults>>
    /\ UNCHANGED <<char_signed, gvars, svars>>


(* The head of the loop over the devices: *p++ = cells_per_device[i] and   *)
(* the two temperatures; when the loop ends, the CRC over what was written *)
(* and the return of the length.                                           *)
PollDevice ==
    /\ pc = "poll_device"
    /\ IF loc.i < devices_used + 1
       THEN \E e1 \in BusFaults(2, faults) :
            \E e2 \in BusFaults(2, faults - Spent(e1)) :
            \E r1 \in {readRegister(bq_prepare_spi_message(World), loc.i,
                                    TEMPERATURE1, 2, e1, char_signed)} :
            \E r2 \in {readRegister(bq_prepare_spi_message(r1.w), loc.i,
                                    TEMPERATURE2, 2, e2, char_signed)} :
               /\ SetWorld(r2.w)
               /\ faults' = faults - Spent(e1) - Spent(e2)
               /\ user_buff' = user_buff \o <<AsU8(cells_per_device[loc.i]),
                                             ScaleTemperature(r1.ret),
                                             ScaleTemperature(r2.ret)>>
               /\ loc' = [loc EXCEPT !.temp = CDiv(r2.ret - 2048, 120),
                                     !.fault = @ + Spent(e1) + Spent(e2),
                                     !.from = @ \o <<0, r1.ret, r2.ret>>]
               /\ pc' = "poll_status"
       ELSE /\ user_buff' = Append(user_buff, crc8(crc8_table, user_buff, 0))
            /\ loc' = [loc EXCEPT !.ret = Len(user_buff) + 1,
                                  !.from = Append(@, 0)]
            /\ pc' = "poll_done"
            /\ UNCHANGED <<tvars, faults>>
    /\ UNCHANGED <<char_signed, gvars, svars>>

StatusRegs_overvoltage_first ==
    <<DEVICE_STATUS, FAULT_STATUS, ALERT_STATUS, COV_FAULT, CUV_FAULT>>

StatusRegs == <<DEVICE_STATUS, FAULT_STATUS, ALERT_STATUS, CUV_FAULT, COV_FAULT>>

(* The five status reads of device i, queued one behind the other in one   *)
(* batch; the bus does fe to the execution of read number hit.             *)
RECURSIVE StatusReads(_, _, _, _, _, _, _)
StatusReads(w, rets, i, m, hit, fe, signed) ==
    IF m > Len(StatusRegs) THEN [w |-> w, rets |-> rets]
    ELSE CHOOSE out \in
            {StatusReads(r.w, Append(rets, r.ret), i, m + 1, hit, fe, signed) :
                r \in {readRegister(w, i, StatusRegs[m], 1,
                                    IF m = hit THEN fe ELSE BusOk, signed)}} : TRUE

(* The rest of the loop's body: one batch reset, five reads, five bytes.   *)
PollStatus ==
    /\ pc = "poll_status"
    /\ \E hit \in (IF faults = 0 THEN {0} ELSE 0..Len(StatusRegs)) :
       \E fe \in (IF hit = 0 THEN {BusOk} ELSE BusFaults(1, faults) \ {BusOk}) :
       \E r \in {StatusReads(bq_prepare_spi_message(World), <<>>, loc.i, 1, hit,
                             fe, char_signed)} :
          /\ SetWorld(r.w)
          /\ faults' = faults - Spent(fe)
          /\ user_buff' = user_buff \o [k \in 1..Len(r.rets) |-> AsU8(r.rets[k])]
          /\ loc' = [loc EXCEPT !.i = @ + 1, !.fault = @ + Spent(fe),
                                !.from = @ \o r.rets]
          /\ pc' = "poll_device"
    /\ UNCHANGED <<char_signed, gvars, svars>>

(* The rest of bq_read behind get_voltages: nothing to copy when the       *)
(* length is 0, else copy_to_user of at most count bytes, which may fail;  *)
(* up(&bq_dev.fop_sem) and the return of status.                           *)
ReadReturn ==
    /\ pc = "poll_done"
    /\ \E count \in {8, USER_BUFF_SIZE} :
          IF loc.ret = 0
          THEN loc' = [loc EXCEPT !.count = count, !.status = 0]
          ELSE \E copied \in BOOLEAN :
                  loc' = [loc EXCEPT !.count = count,
                                     !.status = IF ~copied THEN 0 - EFAULT
                                                ELSE IF loc.ret < count
                                                THEN loc.ret ELSE count]
    /\ fop_sem' = fop_sem + 1
    /\ pc' = "read_done"
    /\ UNCHANGED <<tvars, char_signed, gvars, faults, user_buff, spi_sem, thr,
                   heap>>

NextPoll ==
    \/ PollStart \/ ConvFinish \/ PollWait \/ PollCells \/ PollDevice
    \/ PollStatus \/ ReadReturn

SpecPoll == InitPoll /\ [][NextPoll]_vars

(* The positions of user_buff that hold a voltage, a temperature or one of *)
(* the five status bytes: those that readRegister was called for.          *)
ReadFields ==
    {k \in 1..Len(user_buff) :
        \/ k \in 2..(1 + total_cell_count)
        \/ /\ k > 2 + total_cell_count
           /\ k < Len(user_buff)
           /\ (k - 3 - total_cell_count) % 8 # 0}

(* C5: in a poll cycle that returns a non-empty buffer, every voltage,     *)
(* temperature and status byte was computed from a read that succeeded     *)
(* (transport carried, CRC accepted): none comes from a read that returned *)
(* an error.                                                               *)
C5_BytesFromGoodReads ==
    (pc = "poll_done" /\ loc.ret > 0)
    => \A k \in ReadFields : loc.from[k] >= 0

(* C10: a successful poll cycle produces no more than                      *)
(* 2 + total_cell_count + devices_used * 7 + 1 bytes.                      *)
C10_LengthWithinCapacity ==
    (pc = "poll_done" /\ loc.ret > 0)
    => /\ loc.ret <= 2 + total_cell_count + devices_used * 7 + 1
       /\ Len(user_buff) <= 2 + total_cell_count + devices_used * 7 + 1


(* The register pair or register a chip holds, as a read of count bytes    *)
(* returns it when nothing goes wrong.                                     *)
Held(i, reg, count) ==
    IF count = 1 THEN DevByte(chain[i], reg)
    ELSE DevByte(chain[i], reg) * 256 + DevByte(chain[i], reg + 1)

(* The layout of n voltages and d device groups: what position k of the    *)
(* buffer stands for.                                                      *)
FieldAt(k, n, d) ==
    IF k = 1 THEN [kind |-> "cell_count"]
    ELSE IF k <= n + 1 THEN [kind |-> "voltage", tap |-> k - 1]
    ELSE IF k = n + 2 THEN [kind |-> "device_count"]
    ELSE IF k = n + 8 * d + 3 THEN [kind |-> "crc"]
    ELSE LET i == ((k - n - 3) \div 8) + 1
             f == (k - n - 3) % 8
         IN  IF f = 0 THEN [kind |-> "declared", chip |-> i]
             ELSE IF f = 1 THEN [kind |-> "temp", chip |-> i, reg |-> TEMPERATURE1]
             ELSE IF f = 2 THEN [kind |-> "temp", chip |-> i, reg |-> TEMPERATURE2]
             ELSE [kind |-> "status", chip |-> i,
                   reg |-> <<DEVICE_STATUS, FAULT_STATUS, ALERT_STATUS,
                             CUV_FAULT, COV_FAULT>>[f - 2]]

(* Position k holds its field: the counts as they are, a read field the    *)
(* byte made of what the read of its register returned, and that is the    *)
(* register's content whenever the read succeeded.                         *)
FieldHolds(k) ==
    LET f == FieldAt(k, total_cell_count, devices_used)
        b == user_buff[k]
        v == loc.from[k]
    IN  IF f.kind = "cell_count" THEN b = total_cell_count
        ELSE IF f.kind = "device_count" THEN b = devices_used
        ELSE IF f.kind = "declared" THEN b = cells_per_device[f.chip]
        ELSE IF f.kind = "crc" THEN TRUE
        ELSE IF f.kind = "voltage"
            THEN /\ b = AsU8(CDiv(v * 6250, 327660))
                 /\ v >= 0 => v = Held(cells[f.tap].chip, cells[f.tap].index, 2)
        ELSE IF f.kind = "temp"
            THEN /\ b = AsU8(CDiv(v - 2048, 120))
                 /\ v >= 0 => v = Held(f.chip, f.reg, 2)
        ELSE /\ b = AsU8(v)
             /\ v >= 0 => v = Held(f.chip, f.reg, 1)

RECURSIVE DivideBits(_, _)
DivideBits(reg, n) ==
    IF n = 0 THEN reg
    ELSE DivideBits(IF reg >= 128 THEN BitXor((reg * 2) % 256, 7)
                    ELSE (reg * 2) % 256,
                    n - 1)

DivideByte == [b \in 0..255 |-> DivideBits(b, 8)]

RECURSIVE Remainder8(_, _)
Remainder8(bytes, reg) ==
    IF bytes = <<>> THEN reg
    ELSE Remainder8(Tail(bytes), DivideByte[BitXor(reg, Head(bytes))])

(* C12: in the buffer of a successful poll cycle the last byte is the      *)
(* CRC-8 (x^8 + x^2 + x + 1, initial value 0) of all the bytes before it.  *)
C12_TrailingCrc ==
    (pc = "poll_done" /\ loc.ret > 0)
    => user_buff[Len(user_buff)]
          = Remainder8(SubSeq(user_buff, 1, Len(user_buff) - 1), 0)

C12_Witness ==
    /\ pc = "poll_done"
    /\ loc.ret = Len(user_buff)
    /\ loc.ret >= 20
    /\ user_buff[Len(user_buff)] >= 128
    /\ \E k \in 2..(Len(user_buff) - 1) : user_buff[k] >= 128


(* (temp & DRDY) == 0, as the waiting loop tests it.                       *)
NoDataReady == \A k \in 1..Len(loc.waits) : loc.waits[k] % 2 = 0

C21_AtMostSixStatusReads ==
    Len(loc.waits) <= 6

(* C22: the poll cycle leaves the waiting loop and emits telemetry only    *)
(* after a status read that succeeded: the read that ended the wait did    *)
(* not return an error value.                                              *)
C22_FailedReadNotReady ==
    user_buff # <<>> => loc.waits[Len(loc.waits)] >= 0

(* C19: writeRegister(address, reg, data) on a freshly reset batch puts    *)
(* exactly the four bytes address << 1 | 1, reg, data, CRC-8 of those      *)
(* three, at the head of the transmit buffer, queues them as one transfer  *)
(* of length 4 with no receive buffer, and puts nothing on the bus.        *)
C19_WriteQueued ==
    pc = "codec_write_done"
    => LET head == <<(2 * loc.address + 1) % 256, loc.reg, loc.value>>
       IN  /\ loc.ret = 0
           /\ \A k \in 1..3 : bq_ctl.tx_buff[k - 1] = head[k]
           /\ bq_ctl.tx_buff[3] = Remainder8(head, 0)
           /\ \A i \in BuffIndex : i > 3 => bq_ctl.tx_buff[i] = 0
           /\ byte_index = 4
           /\ xfer_index = 0
           /\ bq_ctl.msg = <<0>>
           /\ bq_ctl.xfer[0] = [cs_change |-> 1, tx_buf |-> 0,
                                rx_buf |-> NULL, len |-> 4]
           /\ \A i \in XferIndex : i > 0 => bq_ctl.xfer[i].len = 0
           /\ bus_log = <<>>
           /\ oob = {}

(* The write of 165 to register VCELL1 of the chip at address 31 is        *)
(* queued as 63, 3, 165 and a CRC byte, and the bus has seen nothing.      *)
C19_Witness ==
    /\ pc = "codec_write_done"
    /\ loc.address = 31
    /\ loc.reg = VCELL1
    /\ loc.value = 165
    /\ bq_ctl.tx_buff[0] = 63
    /\ bq_ctl.tx_buff[2] = 165
    /\ bq_ctl.tx_buff[3] # 0
    /\ bq_ctl.msg = <<0>>
    /\ bus_log = <<>>

(***************************************************************************)
(* SpecCapacity: the poll cycle of SpecPoll on the long chains the driver  *)
(* can discover: 1, MaxChain - 1 or MaxChain chips, all with the same taps *)
(* populated, on a bus that carries every execution.  user_buff is the     *)
(* sequence of bytes written through p, however many.                      *)
(***************************************************************************)
InitCapacity ==
    /\ char_signed \in BOOLEAN
    /\ \E n \in {1, MaxChain - 1, MaxChain} :
          /\ \E pr \in PollProfiles, c \in PollConditions :
                chain = [p \in 1..n |->
                           [Chip(p) EXCEPT !.vcell = pr, !.temp = c.temp,
                                           !.fault = c.st[1], !.alert = c.st[2],
                                           !.cuv = c.st[3], !.cov = c.st[4]]]
          /\ devices_used = n
    /\ cells = CensusTable([ctl |-> InitCtl, xfer_index |-> -1, byte_index |-> 0,
                            oob |-> {}, chain |-> chain, bus_log |-> <<>>],
                           devices_used, 0, char_signed)
    /\ total_cell_count = Len(cells)
    /\ cells_per_device = [i \in 0..MAX_BQ_DEVICES |->
                             IF i \in 1..devices_used THEN CellsOf(cells, i)
                             ELSE InitCellsPerDevice[i]]
    /\ bq_ctl = InitCtl
    /\ xfer_index = -1
    /\ byte_index = 0
    /\ oob = {}
    /\ bus_log = <<>>
    /\ pc = "get_voltages"
    /\ loc = [i |-> 0, temp |-> 0, tries |-> 0, ret |-> 0, from |-> <<>>,
              fault |-> 0, waits |-> <<>>, count |-> 0, status |-> 0]
    /\ faults = 0
    /\ user_buff = <<>>
    /\ spi_sem = 1
    /\ fop_sem = 0
    /\ thr = <<>>
    /\ heap = {"tx_buff", "rx_buff", "crc8_table", "cells", "user_buff"}

SpecCapacity == InitCapacity /\ [][NextPoll]_vars

(* C25: a poll cycle writes no more than USER_BUFF_SIZE bytes into the     *)
(* buffer bq_open allocated.                                               *)
C25_BufferNotOverrun ==
    Len(user_buff) <= USER_BUFF_SIZE

(***************************************************************************)
(* SpecScale: the two conversions of get_voltages, each applied to every   *)
(* value a two-byte read can return, 0..65535.  loc.raw is the reading,    *)
(* loc.byte what *p++ = ... stores for it.                                 *)
(***************************************************************************)
RawReadings == 0..(Pow2(16) - 1)

InitScale ==
    /\ char_signed = FALSE
    /\ loc \in [raw : RawReadings, byte : {0}]
    /\ pc = "scale"
    /\ chain = <<Chip(1)>>
    /\ bq_ctl = InitCtl
    /\ xfer_index = -1
    /\ byte_index = 0
    /\ oob = {}
    /\ bus_log = <<>>
    /\ devices_used = 1
    /\ cells_per_device = InitCellsPerDevice
    /\ total_cell_count = 0
    /\ cells = <<>>
    /\ faults = 0
    /\ user_buff = <<>>
    /\ spi_sem = 1
    /\ fop_sem = 0
    /\ thr = <<>>
    /\ heap = {"tx_buff", "rx_buff", "crc8_table", "cells"}

(* *p++ = ((temp * 6250) / 327660);                                        *)
EmitVoltage ==
    /\ pc = "scale"
    /\ loc' = [loc EXCEPT !.byte = ScaleVoltage(loc.raw)]
    /\ user_buff' = <<ScaleVoltage(loc.raw)>>
    /\ pc' = "voltage_done"
    /\ UNCHANGED <<tvars, char_signed, gvars, faults, svars>>

(* temp -= 2048; temp /= 120; *p++ = temp;                                 *)
EmitTemperature ==
    /\ pc = "scale"
    /\ loc' = [loc EXCEPT !.byte = ScaleTemperature(loc.raw)]
    /\ user_buff' = <<ScaleTemperature(loc.raw)>>
    /\ pc' = "temperature_done"
    /\ UNCHANGED <<tvars, char_signed, gvars, faults, svars>>

NextScale == EmitVoltage \/ EmitTemperature

SpecScale == InitScale /\ [][NextScale]_vars

(* C14: for every raw reading 0..65535 the voltage byte is                 *)
(* round(raw * 6250 / 327660), rounded to nearest.                         *)
C14_VoltageRounded ==
    LET nearest == (2 * loc.raw * 6250 + 327660) \div (2 * 327660)
    IN  pc = "voltage_done" => loc.byte = nearest

(* C15: the voltage byte of raw 0 is 0, and the byte of raw 65535 is the   *)
(* scaled value itself, which is at most 255: nothing is lost to the byte. *)
C15_VoltageFitsByte ==
    /\ (pc = "voltage_done" /\ loc.raw = 0) => loc.byte = 0
    /\ (pc = "voltage_done" /\ loc.raw = 65535)
          => (CDiv(loc.raw * 6250, 327660) <= 255
                /\ loc.byte = CDiv(loc.raw * 6250, 327660))

(* C16: for every raw reading 0..65535 the temperature byte, read as a     *)
(* signed 8-bit value, is (raw - 2048) / 120.                              *)
C16_TemperatureFitsByte ==
    LET signed == IF loc.byte >= 128 THEN loc.byte - 256 ELSE loc.byte
    IN  pc = "temperature_done"
        => (signed = CDiv(loc.raw - 2048, 120)
              /\ CDiv(loc.raw - 2048, 120) \in (0 - 128)..127)


(***************************************************************************)
(* SpecStatus: the loop of bq_probe that calls get_chip_status(i) for the  *)
(* chips 1..count, up to the bq_prepare_spi_message that opens the census. *)
(* Each chip holds one of FaultValues in FAULT_STATUS and one of           *)
(* AlertValues in ALERT_STATUS; the bus carries every execution.  bus_log  *)
(* holds every frame the bus carried since the loop began, loc.vals what   *)
(* the calls returned so far.                                              *)
(***************************************************************************)
FaultValues == {0, FS_COV, FS_POR, FS_COV + FS_POR}
AlertValues == {0, AS_OT1, AS_AR}

InitStatus ==
    /\ char_signed \in BOOLEAN
    /\ \E n \in 1..MaxDev :
          /\ \E f \in [1..n -> FaultValues], a \in [1..n -> AlertValues] :
                chain = [p \in 1..n |->
                           [Chip(p) EXCEPT !.fault = f[p], !.alert = a[p]]]
          /\ devices_used = n
          /\ loc = [count |-> n, i |-> 1, val |-> 0, fault |-> 0, alert |-> 0,
                    vals |-> <<>>]
    /\ bq_ctl = InitCtl
    /\ xfer_index = -1
    /\ byte_index = 0
    /\ oob = {}
    /\ bus_log = <<>>
    /\ cells_per_device = InitCellsPerDevice
    /\ total_cell_count = 0
    /\ cells = <<>>
    /\ pc = "status_loop"
    /\ faults = 0
    /\ user_buff = <<>>
    /\ spi_sem = 0
    /\ fop_sem = 1
    /\ thr = <<>>
    /\ heap = {"tx_buff", "rx_buff", "crc8_table"}

(* value & mask for an int value and a mask below 256.                     *)
Masked(value, mask) == BitAnd(value % 256, mask)

(* get_chip_status returns val; i++ in the loop of bq_probe.               *)
StatusReturn(l) ==
    /\ loc' = [l EXCEPT !.vals = Append(@, l.val), !.i = @ + 1]
    /\ pc' = "status_loop"

(* After get_fault: if (val & DS_ALERT) get_alert(address); return val;    *)
AfterFault(l) ==
    IF Masked(l.val, DS_ALERT) # 0
    THEN loc' = l /\ pc' = "get_alert"
    ELSE StatusReturn(l)

(* bq_prepare_spi_message(); val = readRegister(address, DEVICE_STATUS, 1) *)
(* and the tests on val.                                                   *)
StatusRead ==
    /\ pc = "status_loop"
    /\ loc.i < loc.count + 1
    /\ \E r \in {readRegister(bq_prepare_spi_message(World), loc.i,
                               DEVICE_STATUS, 1, BusOk, char_signed)} :
          /\ SetWorld(r.w)
          /\ \E l \in {[loc EXCEPT !.val = r.ret]} :
                IF r.ret < 0 THEN StatusReturn(l)
                ELSE IF Masked(r.ret, DS_FAULT) # 0
                     THEN loc' = l /\ pc' = "get_fault"
                ELSE AfterFault(l)
    /\ UNCHANGED <<char_signed, gvars, faults, user_buff, svars>>

(* get_fault: the read of FAULT_STATUS, the two writeRegister, the test of *)
(* FS_COV.                                                                 *)
FaultRead ==
    /\ pc = "get_fault"
    /\ \E r \in {readRegister(World, loc.i, FAULT_STATUS, 1, BusOk, char_signed)} :
       \E w1 \in {writeRegister(r.w, loc.i, FAULT_STATUS, r.ret % 256).w} :
       \E w2 \in {writeRegister(w1, loc.i, FAULT_STATUS, 0).w} :
          /\ SetWorld(w2)
          /\ \E l \in {[loc EXCEPT !.fault = r.ret]} :
                IF Masked(r.ret, FS_COV) # 0
                THEN loc' = l /\ pc' = "cov"
                ELSE AfterFault(l)
    /\ UNCHANGED <<char_signed, gvars, faults, user_buff, svars>>

(* cov: the reads of COV_FAULT and CONFIG_COV.                             *)
CovReads ==
    /\ pc = "cov"
    /\ \E r1 \in {readRegister(World, loc.i, COV_FAULT, 1, BusOk, char_signed)} :
       \E r2 \in {readRegister(r1.w, loc.i, CONFIG_COV, 1, BusOk, char_signed)} :
          /\ SetWorld(r2.w)
          /\ AfterFault(loc)
    /\ UNCHANGED <<char_signed, gvars, faults, user_buff, svars>>

(* get_alert: the read of ALERT_STATUS, the two writeRegister, the test of *)
(* AS_AR.                                                                  *)
AlertRead ==
    /\ pc = "get_alert"
    /\ \E r \in {readRegister(World, loc.i, ALERT_STATUS, 1, BusOk, char_signed)} :
       \E w1 \in {writeRegister(r.w, loc.i, ALERT_STATUS, r.ret % 256).w} :
       \E w2 \in {writeRegister(w1, loc.i, ALERT_STATUS, 0).w} :
          /\ SetWorld(w2)
          /\ \E l \in {[loc EXCEPT !.alert = r.ret]} :
                IF Masked(r.ret, AS_AR) = 0
                THEN loc' = l /\ pc' = "address_reg"
                ELSE StatusReturn(l)
    /\ UNCHANGED <<char_signed, gvars, faults, user_buff, svars>>

(* address_reg = readRegister(address, ADDRESS_CONTROL, 1);                *)
AddressRead ==
    /\ pc = "address_reg"
    /\ \E r \in {readRegister(World, loc.i, ADDRESS_CONTROL, 1, BusOk, char_signed)} :
          /\ SetWorld(r.w)
          /\ StatusReturn(loc)
    /\ UNCHANGED <<char_signed, gvars, faults, user_buff, svars>>

(* The loop is over: total_cell_count = 0 and the bq_prepare_spi_message   *)
(* before the first read of the census.                                    *)
CensusPrepare ==
    /\ pc = "status_loop"
    /\ ~(loc.i < loc.count + 1)
    /\ \E w \in {bq_prepare_spi_message(World)} : SetWorld(w)
    /\ total_cell_count' = 0
    /\ pc' = "status_done"
    /\ UNCHANGED <<char_signed, devices_used, cells_per_device, cells, loc,
                   faults, user_buff, svars>>

NextStatus ==
    \/ StatusRead \/ FaultRead \/ CovReads \/ AlertRead \/ AddressRead
    \/ CensusPrepare

SpecStatus == InitStatus /\ [][NextStatus]_vars

(* The bus carried, for chip j and register reg, a read, later a write,    *)
(* and later a write of zero.                                              *)
Acked(j, reg) ==
    \E a \in 1..Len(bus_log) :
       /\ bus_log[a] = [op |-> "R", address |-> j, reg |-> reg, data |-> 1]
       /\ \E b \in (a + 1)..Len(bus_log) :
             /\ bus_log[b].op = "W"
             /\ bus_log[b].address = j
             /\ bus_log[b].reg = reg
             /\ \E c \in (b + 1)..Len(bus_log) :
                   bus_log[c] = [op |-> "W", address |-> j, reg |-> reg, data |-> 0]

(* C20: once get_chip_status has returned a status with the fault bit      *)
(* (the alert bit) set for a chip, the bus has carried a read of that      *)
(* chip's fault (alert) register, then a write to it, then a write of      *)
(* zero to it, whatever the register held.                                 *)
C20_AckAndClearOnBus ==
    \A j \in 1..Len(loc.vals) :
       LET val == loc.vals[j]
       IN  /\ (val >= 0 /\ BitAnd(val, DS_FAULT) # 0) => Acked(j, FAULT_STATUS)
           /\ (val >= 0 /\ BitAnd(val, DS_ALERT) # 0) => Acked(j, ALERT_STATUS)

(* C27: between two batch resets every queued transfer goes out on the bus *)
(* at most once.  Each get_chip_status(i) is one batch, its transfers are  *)
(* all different and carry the chip's address, so no frame appears twice   *)
(* among those the bus carried during the loop.                            *)
C27_SentOnce ==
    \A a, b \in 1..Len(bus_log) : a < b => bus_log[a] # bus_log[b]

(***************************************************************************)
(* SpecBatches: every sequence of transport calls the driver makes between *)
(* two bq_prepare_spi_message: the passes of search_pack, write_defaults,  *)
(* the get_chip_status loop, the census reads and the poll cycle, each     *)
(* from the states its own specification starts it in.                     *)
(***************************************************************************)
DefaultWrites ==
    << <<ADC_CONTROL, BitOr(AC_CELL_SEL_6, BitOr(AC_TS1, AC_TS2))>>,
       <<IO_CONTROL, BitOr(TS1, TS2)>>,
       <<SHDW_CTRL, SC_ENABLE>>,
       <<ADC_CONVERT, AC_CONV>>,
       <<SHDW_CTRL, SC_ENABLE>>,
       <<CONFIG_COV, COV_350>>,
       <<SHDW_CTRL, SC_ENABLE>>,
       <<CONFIG_CUV, COV_300>>,
       <<SHDW_CTRL, SC_ENABLE>>,
       <<CONFIG_COVT, BitOr(CC_USMS, 1)>> >>

(* The writeRegister(BROADCAST, reg, data) of write_defaults, in order.    *)
RECURSIVE QueueWrites(_, _)
QueueWrites(w, writes) ==
    IF writes = <<>> THEN w
    ELSE CHOOSE out \in
            {QueueWrites(x, Tail(writes)) :
               x \in {writeRegister(w, BROADCAST, Head(writes)[1],
                                    Head(writes)[2]).w}} : TRUE

InitDefaults ==
    /\ char_signed \in BOOLEAN
    /\ \E n \in 1..MaxDev :
          /\ chain = [p \in 1..n |-> Chip(p)]
          /\ devices_used = n
    /\ loc = [status |-> 0, retval |-> -EFAULT]
    /\ bq_ctl = InitCtl
    /\ xfer_index = -1
    /\ byte_index = 0
    /\ oob = {}
    /\ bus_log = <<>>
    /\ cells_per_device = InitCellsPerDevice
    /\ total_cell_count = 0
    /\ cells = <<>>
    /\ pc = "write_defaults"
    /\ faults = 0
    /\ user_buff = <<>>
    /\ spi_sem = 0
    /\ fop_sem = 1
    /\ thr = <<>>
    /\ heap = {"tx_buff", "rx_buff", "crc8_table"}

(* retval = write_defaults();                                              *)
WriteDefaults ==
    /\ pc = "write_defaults"
    /\ \E ev \in {BusOk, BusFail} :
       \E s \in {spi_sync(QueueWrites(bq_prepare_spi_message(World),
                                      DefaultWrites), ev)} :
          /\ SetWorld(s.w)
          /\ loc' = [status |-> s.status, retval |-> s.status]
    /\ pc' = "defaults_done"
    /\ UNCHANGED <<char_signed, gvars, faults, user_buff, svars>>

InitBatches ==
    InitDiscovery \/ InitDefaults \/ InitStatus \/ InitCensus \/ InitPoll

NextBatches ==
    NextDiscovery \/ WriteDefaults \/ NextStatus \/ NextCensus \/ NextPoll

SpecBatches == InitBatches /\ [][NextBatches]_vars

(* C26: between two batch resets byte_index never exceeds SPI_BUFF_SIZE,   *)
(* xfer_index never exceeds MAX_XFER - 1, and the transfer array and the   *)
(* transmit and receive buffers are never accessed out of bounds.          *)
C26_BatchFits ==
    /\ byte_index <= SPI_BUFF_SIZE
    /\ xfer_index <= MAX_XFER - 1
    /\ Len(bq_ctl.msg) <= MAX_XFER
    /\ oob \cap {"xfer", "tx_buff", "rx_buff"} = {}

(* A get_chip_status that handled a fault with overvoltage and an alert    *)
(* and read the address register: ten transfers, 46 bytes.                 *)
C26_Witness ==
    /\ pc = "status_loop"
    /\ Len(loc.vals) = 1
    /\ xfer_index = MAX_XFER - 1
    /\ Len(bq_ctl.msg) = MAX_XFER
    /\ byte_index = 46
    /\ oob = {}

(***************************************************************************)
(* SpecPermits: the handlers as threads.  The driver core runs bq_probe    *)
(* and, once a probe has bound the device, bq_remove; two user processes   *)
(* open the character device, which bq_init creates before it registers    *)
(* the SPI driver, and read it.  thr is the position of each thread in its *)
(* handler, heap the buffers that are allocated.  A handler that uses a    *)
(* buffer which is not allocated (not yet, or not any more) puts its name  *)
(* in oob.  loc.status is what the last call of each reader returned.      *)
(***************************************************************************)
Readers == {"reader1", "reader2"}
Threads == {"probe", "remove"} \cup Readers

ProbeBuffers == <<"tx_buff", "rx_buff", "crc8_table">>
TelemetryBuffers == {"tx_buff", "rx_buff", "crc8_table", "cells"}

ERESTARTSYS == 512
ENOMEM == 12

(* bq_init: memset of bq_dev and bq_ctl, the two sema_init.                *)
InitPermits ==
    /\ char_signed \in BOOLEAN
    /\ spi_sem = 1
    /\ fop_sem = 1
    /\ thr = [t \in Threads |-> "idle"]
    /\ heap = {}
    /\ oob = {}
    /\ pc = "permits"
    /\ loc = [status |-> [r \in Readers |-> 0], retval |-> 0]
    /\ chain = <<Chip(0)>>
    /\ bq_ctl = InitCtl
    /\ xfer_index = 0
    /\ byte_index = 0
    /\ bus_log = <<>>
    /\ devices_used = 1
    /\ cells_per_device = InitCellsPerDevice
    /\ total_cell_count = 0
    /\ cells = <<>>
    /\ faults = 0
    /\ user_buff = <<>>

pvars == <<bq_ctl, xfer_index, byte_index, chain, bus_log, char_signed,
           devices_used, cells_per_device, total_cell_count, cells, pc,
           faults, user_buff>>

(* if (down_interruptible(&bq_dev.spi_sem)) return -EBUSY;                 *)
ProbeDown ==
    /\ thr["probe"] = "idle" /\ thr["remove"] = "idle"
    /\ spi_sem > 0
    /\ spi_sem' = spi_sem - 1
    /\ thr' = [thr EXCEPT !["probe"] = "probe_alloc"]
    /\ UNCHANGED <<pvars, oob, loc, fop_sem, heap>>

(* The three kmallocs of bq_probe: all succeed, or the k-th fails and the  *)
(* handler leaves through bq_probe_error, which frees what it holds.       *)
ProbeAlloc ==
    /\ thr["probe"] = "probe_alloc"
    /\ \/ /\ heap' = heap \cup {ProbeBuffers[k] : k \in 1..Len(ProbeBuffers)}
          /\ thr' = [thr EXCEPT !["probe"] = "probe_census"]
          /\ UNCHANGED loc
       \/ /\ heap' = heap \ TelemetryBuffers
          /\ thr' = [thr EXCEPT !["probe"] = "probe_failed"]
          /\ loc' = [loc EXCEPT !.retval = 0 - ENOMEM]
    /\ UNCHANGED <<pvars, oob, spi_sem, fop_sem>>

(* search_pack, write_defaults, get_chip_status and the counting pass on   *)
(* the buffers, then the kmalloc of cells, which may fail.                 *)
ProbeCensus ==
    /\ thr["probe"] = "probe_census"
    /\ \E retval \in {0, 0 - 5} :
          \/ /\ heap' = heap \cup {"cells"}
             /\ thr' = [thr EXCEPT !["probe"] = "probe_fill"]
             /\ loc' = [loc EXCEPT !.retval = retval]
          \/ /\ heap' = heap \ TelemetryBuffers
             /\ thr' = [thr EXCEPT !["probe"] = "probe_failed"]
             /\ loc' = [loc EXCEPT !.retval = 0 - ENOMEM]
    /\ UNCHANGED <<pvars, oob, spi_sem, fop_sem>>

(* The filling pass, up(&bq_dev.spi_sem), and behind bq_probe_error the    *)
(* kfrees when write_defaults had returned an error.                       *)
ProbeUp ==
    /\ thr["probe"] = "probe_fill"
    /\ spi_sem' = spi_sem + 1
    /\ IF loc.retval # 0
       THEN /\ heap' = heap \ TelemetryBuffers
            /\ thr' = [thr EXCEPT !["probe"] = "probe_failed"]
       ELSE /\ heap' = heap
            /\ thr' = [thr EXCEPT !["probe"] = "bound"]
    /\ UNCHANGED <<pvars, oob, loc, fop_sem>>

(* bq_remove of a bound device: down_interruptible(&bq_dev.spi_sem).       *)
RemoveDown ==
    /\ thr["probe"] = "bound" /\ thr["remove"] = "idle"
    /\ spi_sem > 0
    /\ spi_sem' = spi_sem - 1
    /\ thr' = [thr EXCEPT !["remove"] = "remove_free"]
    /\ UNCHANGED <<pvars, oob, loc, fop_sem, heap>>

(* The four kfrees.                                                        *)
RemoveFree ==
    /\ thr["remove"] = "remove_free"
    /\ heap' = heap \ TelemetryBuffers
    /\ thr' = [thr EXCEPT !["remove"] = "remove_up"]
    /\ UNCHANGED <<pvars, oob, loc, spi_sem, fop_sem>>

(* up(&bq_dev.spi_sem); return 0; the device is unbound again.             *)
RemoveUp ==
    /\ thr["remove"] = "remove_up"
    /\ spi_sem' = spi_sem + 1
    /\ thr' = [thr EXCEPT !["remove"] = "idle", !["probe"] = "idle"]
    /\ UNCHANGED <<pvars, oob, loc, fop_sem, heap>>

(* bq_open: down, the kmalloc of user_buff if there is none, up.           *)
OpenDown(r) ==
    /\ thr[r] = "idle"
    /\ fop_sem > 0
    /\ fop_sem' = fop_sem - 1
    /\ thr' = [thr EXCEPT ![r] = "open"]
    /\ UNCHANGED <<pvars, oob, loc, spi_sem, heap>>

OpenUp(r) ==
    /\ thr[r] = "open"
    /\ fop_sem' = fop_sem + 1
    /\ \/ /\ heap' = heap \cup {"user_buff"}
          /\ thr' = [thr EXCEPT ![r] = "opened"]
          /\ loc' = [loc EXCEPT !.status[r] = 0]
       \/ /\ "user_buff" \notin heap
          /\ heap' = heap
          /\ thr' = [thr EXCEPT ![r] = "idle"]
          /\ loc' = [loc EXCEPT !.status[r] = 0 - ENOMEM]
    /\ UNCHANGED <<pvars, oob, spi_sem>>

(* bq_read: if (down_interruptible(&bq_dev.fop_sem)) return -ERESTARTSYS;  *)
(* the permit is taken, or a signal ends the wait for it.                  *)
ReadDown(r) ==
    /\ thr[r] = "opened"
    /\ IF fop_sem > 0
       THEN /\ fop_sem' = fop_sem - 1
            /\ thr' = [thr EXCEPT ![r] = "get_voltages"]
            /\ UNCHANGED loc
       ELSE /\ loc.status[r] # 0 - ERESTARTSYS
            /\ loc' = [loc EXCEPT !.status[r] = 0 - ERESTARTSYS]
            /\ UNCHANGED <<fop_sem, thr>>
    /\ UNCHANGED <<pvars, oob, spi_sem, heap>>

(* len = get_voltages(bq_dev.user_buff): the poll cycle works in tx_buff   *)
(* and rx_buff with crc8_table and cells.                                  *)
ReadPoll(r) ==
    /\ thr[r] = "get_voltages"
    /\ oob' = oob \cup (TelemetryBuffers \ heap)
    /\ \E len \in {0, 17} :
          /\ thr' = [thr EXCEPT ![r] = "read_copy"]
          /\ loc' = [loc EXCEPT !.status[r] = len]
    /\ UNCHANGED <<pvars, spi_sem, fop_sem, heap>>

(* bq_read returning -EFAULT from the failed copy_to_user without the up.  *)
ReadUp_no_release(r) ==
    /\ thr[r] = "read_copy"
    /\ thr' = [thr EXCEPT ![r] = "opened"]
    /\ \/ /\ fop_sem' = fop_sem + 1
          /\ UNCHANGED loc
       \/ /\ loc.status[r] # 0
          /\ fop_sem' = fop_sem
          /\ loc' = [loc EXCEPT !.status[r] = 0 - EFAULT]
    /\ UNCHANGED <<pvars, oob, spi_sem, heap>>

(* The rest of bq_read: copy_to_user, which may fail, and up(&fop_sem).    *)
ReadUp(r) ==
    /\ thr[r] = "read_copy"
    /\ fop_sem' = fop_sem + 1
    /\ thr' = [thr EXCEPT ![r] = "opened"]
    /\ \/ UNCHANGED loc
       \/ /\ loc.status[r] # 0
          /\ loc' = [loc EXCEPT !.status[r] = 0 - EFAULT]
    /\ UNCHANGED <<pvars, oob, spi_sem, heap>>

NextPermits ==
    \/ ProbeDown \/ ProbeAlloc \/ ProbeCensus \/ ProbeUp
    \/ RemoveDown \/ RemoveFree \/ RemoveUp
    \/ \E r \in Readers :
          OpenDown(r) \/ OpenUp(r) \/ ReadDown(r) \/ ReadPoll(r) \/ ReadUp(r)

SpecPermits == InitPermits /\ [][NextPermits]_vars

Attaching == thr["probe"] \in {"probe_alloc", "probe_census", "probe_fill"}
Detaching == thr["remove"] \in {"remove_free", "remove_up"}
Polling(r) == thr[r] = "get_voltages"

(* C6: no telemetry read is inside get_voltages while an attach or a       *)
(* detach is in progress, and a telemetry read never uses a transport      *)
(* buffer, CRC table or CellTap table that is not allocated.               *)
C6_AttachExcludesTelemetry ==
    /\ \A r \in Readers : Polling(r) => ~(Attaching \/ Detaching)
    /\ oob \cap TelemetryBuffers = {}

(* The threads that have taken fop_sem and not yet given it back.          *)
Holders == {r \in Readers : thr[r] \in {"open", "get_voltages", "read_copy"}}

(* C18: at most one bq_read is between its down and its up of fop_sem, so  *)
(* at most one is inside get_voltages; a read enters only by taking the    *)
(* permit while no other thread holds it; and every return of a bq_read    *)
(* that took the permit gives it back.                                     *)
C18_ReadsExclusive ==
    /\ [](Cardinality({r \in Readers : thr[r] \in {"get_voltages", "read_copy"}}) <= 1)
    /\ [](fop_sem = 1 - Cardinality(Holders))
    /\ [][\A r \in Readers :
            /\ (thr[r] = "opened" /\ thr'[r] = "get_voltages")
                  => (Holders = {} /\ fop_sem = 1 /\ fop_sem' = 0)
            /\ (thr[r] \in {"get_voltages", "read_copy"} /\ thr'[r] = "opened")
                  => (fop_sem = 0 /\ fop_sem' = 1)]_vars

(* One read is inside get_voltages while the other reader's bq_read found  *)
(* the permit taken and its wait was ended by a signal.                    *)
C18_Witness ==
    /\ thr["reader1"] = "get_voltages"
    /\ thr["reader2"] = "opened"
    /\ loc.status["reader2"] = 0 - ERESTARTSYS
    /\ fop_sem = 0

(* C24: whenever no bq_probe and no bq_remove is between its down and its  *)
(* return, in particular after a bq_probe that failed, spi_sem is free     *)
(* for the next attach or detach.                                          *)
C24_ProbeReleasesPermit ==
    (~Attaching /\ ~Detaching) => spi_sem = 1


=============================================================================
